---- MODULE Spec2Model ----
(***************************************************************************)
(* Model of the selenium_probes library: the probe hierarchy               *)
(* ProbeAbstract -> ProbePage -> ProbeForm, its metrics ledger, and the    *)
(* Browser helper the probes drive.  One probe instance is run, possibly   *)
(* several times, against one Browser instance; the Browser instance is    *)
(* also modelled on its own, from its construction to the exits of its     *)
(* scope.  The remote browser is the environment: every outcome it can     *)
(* produce (connection failure, navigation failure, wait timeout, element  *)
(* not found, failure while typing or clicking) is a nondeterministic      *)
(* choice.                                                                 *)
(***************************************************************************)
EXTENDS Integers, Sequences, FiniteSets, TLC

(***************************************************************************)
(* Bounds of the model.                                                    *)
(***************************************************************************)
\* how many times run() is invoked on the probe instance
MaxRuns == 2
\* largest number of entries of the input_params mapping
MaxFields == 2
\* largest value the wall clock is set back to by an adjustment
MaxClock == 1
\* how many times the wall clock is set back
MaxAdjusts == 1
\* longest title, URL or expected string of a call made on the Browser
MaxStrLen == 2
\* how many times the scope of the Browser instance is entered
MaxScopes == 2
\* how many requests the Key Vault receives
MaxContacts == 2

(***************************************************************************)
(* Defaults of the keyword arguments.                                      *)
(***************************************************************************)
\* ProbeAbstract.__init__(probe_timeout=10)
probe_timeout_default == 10
\* Browser.__init__(page_load_timeout=10)
page_load_timeout_default == 10
\* Browser.wait_for_element_get_attribute(wait_timeout=10)
wait_timeout_default == 10

(***************************************************************************)
(* Python values.  An optional value is a tuple: <<>> is None and <<v>> is *)
(* the value v.  A string is a sequence of one-character strings.          *)
(***************************************************************************)
None == <<>>

Some(v) == <<v>>

Val(o) == o[1]

\* the strings given as expected_title, expected_url, post_submit_title and
\* post_submit_url
ExpectedStrings == { <<"a", "b">> }

\* the titles and URLs the remote browser may show after a page is loaded:
\* one holds "ab" as a contiguous part, the other holds the same characters
\* without holding "ab"
PageStrings == { <<"c", "a", "b">>, <<"a", "c", "b">> }

\* the timeouts a caller may configure: the defaults and the values of the
\* usage examples
Timeouts == {5, 10, 30}

\* the browserName of se_capabilities
BrowserNames == {"chrome", "firefox", "opera"}

\* the XPATH locators wait_for_element_get_attribute is called with
XPaths == {"/html/head/title", "//form"}

\* the names and the values of the secrets of the Key Vault
SecretNames == {"s1", "s2"}

SecretValues == {"v1", "v2"}

\* the characters of the strings of a call made on the Browser
Chars == {"a", "b"}

\* the strings of length n
RECURSIVE StringsOf(_)
StringsOf(n) ==
    IF n = 0 THEN { <<>> }
    ELSE { Append(s, c) : s \in StringsOf(n - 1), c \in Chars }

\* the titles and URLs shown, and the expected strings, of a call made on
\* the Browser
Strings == UNION { StringsOf(n) : n \in 0..MaxStrLen }

\* the names of input elements a probe may be configured with, and the value
\* configured for each
FieldNames == {"q", "r", "s"}

FieldValue == [n \in FieldNames |-> IF n = "q" THEN "x" ELSE IF n = "r" THEN "y" ELSE "z"]

\* the tags of the chain a probe of class c composes
ChainTags(c) ==
    IF c = "ProbeAbstract" THEN {"init"}
    ELSE IF c = "ProbePage" THEN {"init", "page_load"}
    ELSE {"init", "page_load", "form_submit"}

\* the tag the run() of class c writes itself
OwnTag(c) ==
    IF c = "ProbeAbstract" THEN "init"
    ELSE IF c = "ProbePage" THEN "page_load"
    ELSE "form_submit"

(***************************************************************************)
(* Pure functions of the code.                                             *)
(***************************************************************************)
\* a test that t starts with s, instead of holding it anywhere
IsSubstring_prefix(s, t) ==
    Len(s) <= Len(t) /\ SubSeq(t, 1, Len(s)) = s

\* Python's `s in t` on strings: s is a contiguous part of t
IsSubstring(s, t) ==
    \E i \in 0..(Len(t) - Len(s)) : SubSeq(t, i + 1, i + Len(s)) = s

\* the outcome of a call: a returned value or a raised exception
Return(v) == [raised |-> "", value |-> v]

Raise(e) == [raised |-> e, value |-> FALSE]

\* _update_metrics that stores the default of its `success` parameter instead
\* of the argument
update_metrics_default_success(metrics, tag, start, finish, success) ==
    LET metrics_dict == [success |-> FALSE,
                         timestamp_start |-> start,
                         timestamp_finish |-> finish,
                         duration |-> finish - start]
    IN  [t \in (DOMAIN metrics) \cup {tag} |->
            IF t = tag THEN metrics_dict ELSE metrics[t]]

\* _update_metrics that subtracts the wrong way round
update_metrics_swapped_duration(metrics, tag, start, finish, success) ==
    LET metrics_dict == [success |-> success,
                         timestamp_start |-> start,
                         timestamp_finish |-> finish,
                         duration |-> start - finish]
    IN  [t \in (DOMAIN metrics) \cup {tag} |->
            IF t = tag THEN metrics_dict ELSE metrics[t]]

\* _update_metrics that keeps the record a tag already has (dict.setdefault
\* instead of dict.update)
update_metrics_keep_existing(metrics, tag, start, finish, success) ==
    LET metrics_dict == [success |-> success,
                         timestamp_start |-> start,
                         timestamp_finish |-> finish,
                         duration |-> finish - start]
    IN  [t \in (DOMAIN metrics) \cup {tag} |->
            IF t \in DOMAIN metrics THEN metrics[t] ELSE metrics_dict]

\* ProbeAbstract._update_metrics: the record of `tag` is replaced
update_metrics(metrics, tag, start, finish, success) ==
    LET metrics_dict == [success |-> success,
                         timestamp_start |-> start,
                         timestamp_finish |-> finish,
                         duration |-> finish - start]
    IN  [t \in (DOMAIN metrics) \cup {tag} |->
            IF t = tag THEN metrics_dict ELSE metrics[t]]

\* Browser.check_title on a Browser whose _browser is wd and shows `shown`
check_title(wd, shown, expected_title) ==
    IF wd = "None" THEN Raise("AttributeError")
    ELSE IF expected_title = None THEN Return(TRUE)
    ELSE IF IsSubstring(Val(expected_title), shown) THEN Return(TRUE)
    ELSE Return(FALSE)

\* Browser.check_url on a Browser whose _browser is wd and shows `shown`
check_url(wd, shown, expected_url) ==
    IF wd = "None" THEN Raise("AttributeError")
    ELSE IF expected_url = None THEN Return(TRUE)
    ELSE IF IsSubstring(Val(expected_url), shown) THEN Return(TRUE)
    ELSE Return(FALSE)

\* Browser.wait_for_element_get_attribute: `present` says whether the element
\* appeared before the timeout, `attr` is its attribute (None when absent)
wait_for_element_get_attribute(present, attr) ==
    IF present THEN <<TRUE, attr>> ELSE <<FALSE, None>>

\* Browser.wait_for_page_to_load: the success flag of the wait for the title
wait_for_page_to_load(present, attr) ==
    wait_for_element_get_attribute(present, attr)[1]

\* a wait_for_page_to_load that would wait for the page_load_timeout given
\* to the constructor
wait_for_page_to_load_timeout_configured(page_load_timeout) == page_load_timeout

\* the wait_timeout of the wait wait_for_page_to_load makes: it calls
\* wait_for_element_get_attribute() without arguments, so the default applies
\* whatever page_load_timeout the Browser was constructed with
wait_for_page_to_load_timeout(page_load_timeout) == wait_timeout_default

\* the overall result of the page probe with the URL check left out
PageRunResult_without_url(init_success, page_success, title_success, url_success) ==
    init_success /\ page_success /\ title_success

\* ProbePage.run: the overall result of the page probe
PageRunResult(init_success, page_success, title_success, url_success) ==
    init_success /\ page_success /\ title_success /\ url_success

\* the overall result of the form probe with the input fields left out
FormRunResult_without_input(page_success, input_success, submit_found, submit_success, title_success, url_success) ==
    /\ page_success
    /\ submit_found
    /\ submit_success
    /\ title_success
    /\ url_success

\* ProbeForm.run: the overall result of the form probe
FormRunResult(page_success, input_success, submit_found, submit_success, title_success, url_success) ==
    /\ page_success
    /\ input_success
    /\ submit_found
    /\ submit_success
    /\ title_success
    /\ url_success

(***************************************************************************)
(* State.                                                                  *)
(***************************************************************************)
VARIABLES
    probe,          \* the probe instance's class and configuration
    probe_metrics,  \* ProbeAbstract._probe_metrics: tag -> record
    webdriver,      \* Browser._browser: "None" or "Remote"
    title,          \* the title the remote browser shows
    current_url,    \* the URL the remote browser shows
    now,            \* the wall clock read by time()
    pc,             \* the position of the run() call
    runs,           \* how many times run() was invoked
    init_run,       \* locals of ProbeAbstract.run
    page_run,       \* locals of ProbePage.run
    form_run,       \* locals of ProbeForm.run
    ret,            \* the value run() returned (when pc = "returned")
    exc,            \* the exception run() raised (when pc = "raised")
    ops,            \* the calls the current run() made, in order
    run_started,    \* the clock when the current run() was invoked
    adjusts,        \* how many times the wall clock was set back
    probe_timeout,  \* ProbeAbstract._probe_timeout
    waits,          \* the timeouts of the waits the current run() made
    browser,        \* the Browser instance: arguments and lifecycle
    session,        \* the remote Selenium session behind Browser._browser
    blog,           \* the calls Browser made on the driver, in order
    last_call,      \* the last call a caller made on the Browser
    other,          \* the other probe instance of the caller, if any
    vault           \* the AzureKeyVault instance and the store behind it

vars == <<probe, probe_metrics, webdriver, title, current_url, now, pc, runs,
          init_run, page_run, form_run, ret, exc, ops, run_started, adjusts,
          probe_timeout, waits, browser, session, blog, last_call, other,
          vault>>

\* what a run() of a probe never changes
bstate == <<probe_timeout, browser, session, blog, last_call, other, vault>>

\* one entry of the call log
Op(op, arg, val, ok) == [op |-> op, arg |-> arg, val |-> val, ok |-> ok]

\* sequences of distinct field names, of length n
RECURSIVE FieldSeqs(_)
FieldSeqs(n) ==
    IF n = 0 THEN { <<>> }
    ELSE { Append(s, f) : s \in FieldSeqs(n - 1), f \in FieldNames }

DistinctFieldSeqs ==
    { s \in UNION { FieldSeqs(n) : n \in 0..MaxFields } :
        \A i, j \in 1..Len(s) : i # j => s[i] # s[j] }

\* the input_params mappings, in insertion order
InputMappings ==
    { [i \in 1..Len(s) |-> [name |-> s[i], value |-> FieldValue[s[i]]]] :
        s \in DistinctFieldSeqs }

Expectations == {None} \cup { Some(s) : s \in ExpectedStrings }

\* the configurations of a probe of each class (ProbeAbstract ignores the
\* keyword arguments of its subclasses)
Probes ==
    { [class |-> "ProbeAbstract", expected_title |-> None, expected_url |-> None,
       input_params |-> None, post_submit_title |-> None, post_submit_url |-> None] }
    \cup
    { [class |-> "ProbePage", expected_title |-> et, expected_url |-> eu,
       input_params |-> None, post_submit_title |-> None, post_submit_url |-> None] :
        et \in Expectations, eu \in Expectations }
    \cup
    { [class |-> "ProbeForm", expected_title |-> et, expected_url |-> eu,
       input_params |-> ip, post_submit_title |-> pt, post_submit_url |-> pu] :
        et \in Expectations, eu \in Expectations,
        ip \in {None} \cup { Some(m) : m \in InputMappings },
        pt \in Expectations, pu \in Expectations }

NoInitRun == [timer_start |-> 0, run_result |-> FALSE]

NoPageRun ==
    [init_success |-> FALSE, page_success |-> FALSE, title_success |-> FALSE,
     url_success |-> FALSE, timer_start |-> 0, run_result |-> FALSE]

NoFormRun ==
    [page_success |-> FALSE, input_success |-> FALSE, submit_found |-> FALSE,
     submit_success |-> FALSE, title_success |-> FALSE, url_success |-> FALSE,
     timer_start |-> 0, run_result |-> FALSE, idx |-> 0]

\* one entry of the log of the calls Browser made on the driver
Did(call, ok) == [call |-> call, ok |-> ok]

\* no call was made on the Browser yet
NoCall ==
    [op |-> "", arg |-> None, xpath |-> "", timeout |-> 0, exited |-> FALSE,
     raised |-> "", value |-> FALSE, attr |-> None]

\* no AzureKeyVault was constructed
NoVault ==
    [status |-> "none", vault_name |-> None, app_id |-> None, creds |-> "",
     client |-> FALSE, secrets |-> [n \in {} |-> 0], contacts |-> 0,
     last |-> [op |-> "", name |-> None, value |-> None, raised |-> "",
               result |-> None]]

\* the state after a probe was constructed: the probe is one of ps, with a
\* probe_timeout of ts
InitInstance(ps, ts) ==
    /\ probe \in ps
    /\ probe_timeout \in ts
    /\ probe_metrics = [t \in {} |-> 0]
    /\ now = 0
    /\ pc = "idle"
    /\ runs = 0
    /\ init_run = NoInitRun
    /\ page_run = NoPageRun
    /\ form_run = NoFormRun
    /\ ret = FALSE
    /\ exc = ""
    /\ ops = << >>
    /\ waits = {}
    /\ run_started = 0
    /\ adjusts = 0

\* the same, for a caller with one probe instance and no AzureKeyVault
InitProbe(ps, ts) ==
    /\ InitInstance(ps, ts)
    /\ other = << >>
    /\ vault = NoVault

\* the state after Browser(...) was constructed with chrome capabilities and
\* the default page_load_timeout, and its scope was entered: the session was
\* opened or not
InitConstructed ==
    /\ webdriver \in {"None", "Remote"}
    /\ title = << >>
    /\ current_url = << >>
    /\ browser = [browserName |-> "chrome",
                  page_load_timeout |-> page_load_timeout_default,
                  status |-> "constructed", depth |-> 1, entered |-> 1,
                  left |-> "", exc |-> ""]
    /\ session = IF webdriver = "Remote"
                 THEN [state |-> "active",
                       page_load_timeout |-> Some(page_load_timeout_default)]
                 ELSE [state |-> "none", page_load_timeout |-> None]
    /\ blog = IF webdriver = "Remote"
              THEN << Did("Remote", TRUE), Did("set_page_load_timeout", TRUE),
                      Did("__enter__", TRUE) >>
              ELSE << Did("Remote", FALSE), Did("logger.exception", TRUE),
                      Did("__enter__", TRUE) >>
    /\ last_call = NoCall

\* the state after Browser(...) and a probe with the default probe_timeout
\* were constructed
InitWith(ps) == InitProbe(ps, {probe_timeout_default}) /\ InitConstructed

Init == InitWith(Probes)

(***************************************************************************)
(* ProbeAbstract.run                                                       *)
(***************************************************************************)
\* run() is invoked on the probe: the chain starts in ProbeAbstract.run,
\* which notes its start time
AbstractStart ==
    /\ pc \in {"idle", "returned", "raised"}
    /\ runs < MaxRuns
    /\ runs' = runs + 1
    /\ run_started' = now
    /\ init_run' = [timer_start |-> now, run_result |-> FALSE]
    /\ page_run' = NoPageRun
    /\ form_run' = NoFormRun
    /\ now' = now + 1
    /\ ret' = FALSE
    /\ exc' = ""
    /\ ops' = << >>
    /\ pc' = "init_finish"
    /\ waits' = {}
    /\ UNCHANGED <<probe, probe_metrics, webdriver, title, current_url, adjusts,
                   bstate>>

\* a ProbeAbstract.run that reports a failure
AbstractFinish_reports_failure ==
    /\ pc = "init_finish"
    /\ LET run_result == FALSE
           timer_stop == now
       IN  /\ probe_metrics' = update_metrics(probe_metrics, "init",
                                   init_run.timer_start, timer_stop, run_result)
           /\ init_run' = [init_run EXCEPT !.run_result = run_result]
           /\ ret' = IF probe.class = "ProbeAbstract" THEN run_result ELSE ret
    /\ now' = now + 1
    /\ ops' = Append(ops, Op("update_metrics", "init", "", TRUE))
    /\ pc' = IF probe.class = "ProbeAbstract" THEN "returned" ELSE "page_start"
    /\ UNCHANGED <<probe, webdriver, title, current_url, runs, page_run,
                   form_run, exc, run_started, adjusts, bstate, waits>>

\* a ProbeAbstract.run that returns without writing "init"
AbstractFinish_without_record ==
    /\ pc = "init_finish"
    /\ LET run_result == TRUE
       IN  /\ init_run' = [init_run EXCEPT !.run_result = run_result]
           /\ ret' = IF probe.class = "ProbeAbstract" THEN run_result ELSE ret
    /\ now' = now + 1
    /\ pc' = IF probe.class = "ProbeAbstract" THEN "returned" ELSE "page_start"
    /\ UNCHANGED <<probe, probe_metrics, webdriver, title, current_url, runs,
                   page_run, form_run, exc, ops, run_started, adjusts, bstate, waits>>

\* the abstract probe always reports success, writes "init" and returns
AbstractFinish ==
    /\ pc = "init_finish"
    /\ LET run_result == TRUE
           timer_stop == now
       IN  /\ probe_metrics' = update_metrics(probe_metrics, "init",
                                   init_run.timer_start, timer_stop, run_result)
           /\ init_run' = [init_run EXCEPT !.run_result = run_result]
           /\ ret' = IF probe.class = "ProbeAbstract" THEN run_result ELSE ret
    /\ now' = now + 1
    /\ ops' = Append(ops, Op("update_metrics", "init", "", TRUE))
    /\ pc' = IF probe.class = "ProbeAbstract" THEN "returned" ELSE "page_start"
    /\ UNCHANGED <<probe, webdriver, title, current_url, runs, page_run,
                   form_run, exc, run_started, adjusts, bstate, waits>>

(***************************************************************************)
(* ProbePage.run                                                           *)
(***************************************************************************)
\* a ProbePage.run that starts its timer before it calls super().run()
PageStart_timer_first ==
    /\ pc = "page_start"
    /\ page_run' = [NoPageRun EXCEPT !.init_success = init_run.run_result,
                                     !.timer_start = run_started]
    /\ now' = now + 1
    /\ IF webdriver = "None"
       THEN /\ pc' = "raised"
            /\ exc' = "AttributeError"
       ELSE /\ pc' = "page_get"
            /\ exc' = exc
    /\ UNCHANGED <<probe, probe_metrics, webdriver, title, current_url, runs,
                   init_run, form_run, ret, ops, run_started, adjusts, bstate, waits>>

\* the locals are set, the timer is started and the current title and URL
\* are read from browser.webdriver for the debug log: with no webdriver the
\* attribute access raises
PageStart ==
    /\ pc = "page_start"
    /\ page_run' = [NoPageRun EXCEPT !.init_success = init_run.run_result,
                                     !.timer_start = now]
    /\ now' = now + 1
    /\ IF webdriver = "None"
       THEN /\ pc' = "raised"
            /\ exc' = "AttributeError"
       ELSE /\ pc' = "page_get"
            /\ exc' = exc
    /\ UNCHANGED <<probe, probe_metrics, webdriver, title, current_url, runs,
                   init_run, form_run, ret, ops, run_started, adjusts, bstate, waits>>

\* webdriver.get(url) in a try block without an else clause: a navigation
\* that raised is followed by the wait all the same
PageGet_without_else ==
    /\ pc = "page_get"
    /\ \/ /\ ops' = Append(ops, Op("get", "", "", FALSE))
          /\ pc' = "page_wait"
          /\ UNCHANGED <<title, current_url>>
       \/ /\ ops' = Append(ops, Op("get", "", "", TRUE))
          /\ title' \in PageStrings
          /\ current_url' \in PageStrings
          /\ pc' = "page_wait"
    /\ UNCHANGED <<probe, probe_metrics, webdriver, now, runs, init_run,
                   page_run, form_run, ret, exc, run_started, adjusts, bstate, waits>>

\* browser.webdriver.get(url): it loads some page, or raises
\* TimeoutException or WebDriverException, which is caught
PageGet ==
    /\ pc = "page_get"
    /\ \/ /\ ops' = Append(ops, Op("get", "", "", FALSE))
          /\ pc' = "page_finish"
          /\ UNCHANGED <<title, current_url>>
       \/ /\ ops' = Append(ops, Op("get", "", "", TRUE))
          /\ title' \in PageStrings
          /\ current_url' \in PageStrings
          /\ pc' = "page_wait"
    /\ UNCHANGED <<probe, probe_metrics, webdriver, now, runs, init_run,
                   page_run, form_run, ret, exc, run_started, adjusts, bstate, waits>>

\* a ProbePage.run that checks the title and the URL whatever the wait
\* returned
PageWait_always_checks ==
    /\ pc = "page_wait"
    /\ \E present \in BOOLEAN :
         LET page_success == wait_for_page_to_load(present, Some(title))
         IN  /\ page_run' = [page_run EXCEPT !.page_success = page_success]
             /\ ops' = Append(ops, Op("wait_for_page_to_load", "", "", page_success))
             /\ pc' = "page_check"
    /\ waits' = waits \cup {wait_for_page_to_load_timeout(browser.page_load_timeout)}
    /\ UNCHANGED <<probe, probe_metrics, webdriver, title, current_url, now,
                   runs, init_run, form_run, ret, exc, run_started, adjusts, bstate>>

\* page_success = browser.wait_for_page_to_load()
PageWait ==
    /\ pc = "page_wait"
    /\ \E present \in BOOLEAN :
         LET page_success == wait_for_page_to_load(present, Some(title))
         IN  /\ page_run' = [page_run EXCEPT !.page_success = page_success]
             /\ ops' = Append(ops, Op("wait_for_page_to_load", "", "", page_success))
             /\ pc' = IF page_success THEN "page_check" ELSE "page_finish"
    /\ waits' = waits \cup {wait_for_page_to_load_timeout(browser.page_load_timeout)}
    /\ UNCHANGED <<probe, probe_metrics, webdriver, title, current_url, now,
                   runs, init_run, form_run, ret, exc, run_started, adjusts, bstate>>

\* title_success and url_success of the loaded page
PageCheck ==
    /\ pc = "page_check"
    /\ LET t == check_title(webdriver, title, probe.expected_title)
           u == check_url(webdriver, current_url, probe.expected_url)
       IN  IF t.raised # "" \/ u.raised # ""
           THEN /\ pc' = "raised"
                /\ exc' = IF t.raised # "" THEN t.raised ELSE u.raised
                /\ UNCHANGED <<page_run, ops>>
           ELSE /\ page_run' = [page_run EXCEPT !.title_success = t.value,
                                                !.url_success = u.value]
                /\ ops' = ops \o << Op("check_title", "", "", t.value),
                                    Op("check_url", "", "", u.value) >>
                /\ pc' = "page_finish"
                /\ exc' = exc
    /\ UNCHANGED <<probe, probe_metrics, webdriver, title, current_url, now,
                   runs, init_run, form_run, ret, run_started, adjusts, bstate, waits>>

\* the checks are combined, the timer is stopped, "page_load" is written and
\* the result is returned
PageFinish ==
    /\ pc = "page_finish"
    /\ LET run_result == PageRunResult(page_run.init_success, page_run.page_success,
                                       page_run.title_success, page_run.url_success)
           timer_stop == now
       IN  /\ probe_metrics' = update_metrics(probe_metrics, "page_load",
                                   page_run.timer_start, timer_stop, run_result)
           /\ page_run' = [page_run EXCEPT !.run_result = run_result]
           /\ ret' = IF probe.class = "ProbePage" THEN run_result ELSE ret
    /\ now' = now + 1
    /\ ops' = Append(ops, Op("update_metrics", "page_load", "", TRUE))
    /\ pc' = IF probe.class = "ProbePage" THEN "returned" ELSE "form_start"
    /\ UNCHANGED <<probe, webdriver, title, current_url, runs, init_run,
                   form_run, exc, run_started, adjusts, bstate, waits>>

(***************************************************************************)
(* ProbeForm.run                                                           *)
(***************************************************************************)
\* where the loop over input_params goes once entry i is done
AfterField(params, i) ==
    IF i < Len(params) THEN "form_input" ELSE "form_find_submit"

\* a ProbeForm.run that enters the loop over the input fields whatever the
\* page probe returned
FormStart_without_guard ==
    /\ pc = "form_start"
    /\ now' = now + 1
    /\ LET page_success == page_run.run_result
           started == [NoFormRun EXCEPT !.page_success = page_success,
                                        !.timer_start = now]
       IN  IF probe.input_params = None
           THEN /\ form_run' = [started EXCEPT !.input_success = TRUE]
                /\ pc' = "raised"
                /\ exc' = "AttributeError"
           ELSE /\ form_run' = [started EXCEPT !.input_success = TRUE, !.idx = 1]
                /\ pc' = AfterField(Val(probe.input_params), 0)
                /\ exc' = exc
    /\ UNCHANGED <<probe, probe_metrics, webdriver, title, current_url, runs,
                   init_run, page_run, ret, ops, run_started, adjusts, bstate, waits>>

\* the locals are set and the timer is started; when the page was loaded the
\* loop over self._input_params.items() is entered, which raises when
\* input_params is None
FormStart ==
    /\ pc = "form_start"
    /\ now' = now + 1
    /\ LET page_success == page_run.run_result
           started == [NoFormRun EXCEPT !.page_success = page_success,
                                        !.timer_start = now]
       IN  IF ~page_success
           THEN /\ form_run' = started
                /\ pc' = "form_finish"
                /\ exc' = exc
           ELSE IF probe.input_params = None
           THEN /\ form_run' = [started EXCEPT !.input_success = TRUE]
                /\ pc' = "raised"
                /\ exc' = "AttributeError"
           ELSE /\ form_run' = [started EXCEPT !.input_success = TRUE, !.idx = 1]
                /\ pc' = AfterField(Val(probe.input_params), 0)
                /\ exc' = exc
    /\ UNCHANGED <<probe, probe_metrics, webdriver, title, current_url, runs,
                   init_run, page_run, ret, ops, run_started, adjusts, bstate, waits>>

\* one iteration of the loop: find_element_by_name(input_key) raises
\* NoSuchElementException, which is caught, or returns the element, and then
\* send_keys(input_value) is called outside any try block
FormInput ==
    /\ pc = "form_input"
    /\ LET params == Val(probe.input_params)
           input_key == params[form_run.idx].name
           input_value == params[form_run.idx].value
       IN  \/ /\ ops' = Append(ops, Op("find_element_by_name", input_key, "", FALSE))
              /\ form_run' = [form_run EXCEPT
                                !.input_success = form_run.input_success /\ FALSE,
                                !.idx = form_run.idx + 1]
              /\ pc' = AfterField(params, form_run.idx)
              /\ exc' = exc
           \/ /\ ops' = ops \o << Op("find_element_by_name", input_key, "", TRUE),
                                  Op("send_keys", input_key, input_value, TRUE) >>
              /\ form_run' = [form_run EXCEPT
                                !.input_success = form_run.input_success /\ TRUE,
                                !.idx = form_run.idx + 1]
              /\ pc' = AfterField(params, form_run.idx)
              /\ exc' = exc
           \/ /\ ops' = ops \o << Op("find_element_by_name", input_key, "", TRUE),
                                  Op("send_keys", input_key, input_value, FALSE) >>
              /\ form_run' = form_run
              /\ pc' = "raised"
              /\ exc' = "WebDriverException"
    /\ UNCHANGED <<probe, probe_metrics, webdriver, title, current_url, now,
                   runs, init_run, page_run, ret, run_started, adjusts, bstate, waits>>

\* find_element_by_xpath in a try block without an else clause: after a
\* failed lookup click() is called on the element input_element still names
FormFindSubmit_without_else ==
    /\ pc = "form_find_submit"
    /\ \/ /\ ops' = Append(ops, Op("find_element_by_xpath", "", "", FALSE))
          /\ form_run' = form_run
          /\ pc' = "form_click"
       \/ /\ ops' = Append(ops, Op("find_element_by_xpath", "", "", TRUE))
          /\ form_run' = [form_run EXCEPT !.submit_found = TRUE]
          /\ pc' = "form_click"
    /\ UNCHANGED <<probe, probe_metrics, webdriver, title, current_url, now,
                   runs, init_run, page_run, ret, exc, run_started, adjusts, bstate, waits>>

\* find_element_by_xpath(submit_element) raises NoSuchElementException, which
\* is caught, or returns the WebElement
FormFindSubmit ==
    /\ pc = "form_find_submit"
    /\ \/ /\ ops' = Append(ops, Op("find_element_by_xpath", "", "", FALSE))
          /\ form_run' = form_run
          /\ pc' = "form_finish"
       \/ /\ ops' = Append(ops, Op("find_element_by_xpath", "", "", TRUE))
          /\ form_run' = [form_run EXCEPT !.submit_found = TRUE]
          /\ pc' = "form_click"
    /\ UNCHANGED <<probe, probe_metrics, webdriver, title, current_url, now,
                   runs, init_run, page_run, ret, exc, run_started, adjusts, bstate, waits>>

\* input_element.click(): it submits the form and some page is shown, or it
\* raises TimeoutException, which is caught, or it raises another
\* WebDriverException, which is not
FormClick ==
    /\ pc = "form_click"
    /\ \/ /\ ops' = Append(ops, Op("click", "", "", TRUE))
          /\ title' \in PageStrings
          /\ current_url' \in PageStrings
          /\ pc' = "form_wait"
          /\ exc' = exc
       \/ /\ ops' = Append(ops, Op("click", "", "TimeoutException", FALSE))
          /\ pc' = "form_finish"
          /\ exc' = exc
          /\ UNCHANGED <<title, current_url>>
       \/ /\ ops' = Append(ops, Op("click", "", "WebDriverException", FALSE))
          /\ pc' = "raised"
          /\ exc' = "WebDriverException"
          /\ UNCHANGED <<title, current_url>>
    /\ UNCHANGED <<probe, probe_metrics, webdriver, now, runs, init_run,
                   page_run, form_run, ret, run_started, adjusts, bstate, waits>>

\* submit_success = browser.wait_for_page_to_load()
FormWait ==
    /\ pc = "form_wait"
    /\ \E present \in BOOLEAN :
         LET submit_success == wait_for_page_to_load(present, Some(title))
         IN  /\ form_run' = [form_run EXCEPT !.submit_success = submit_success]
             /\ ops' = Append(ops, Op("wait_for_page_to_load", "", "", submit_success))
             /\ pc' = IF submit_success THEN "form_check" ELSE "form_finish"
    /\ waits' = waits \cup {wait_for_page_to_load_timeout(browser.page_load_timeout)}
    /\ UNCHANGED <<probe, probe_metrics, webdriver, title, current_url, now,
                   runs, init_run, page_run, ret, exc, run_started, adjusts, bstate>>

\* title_success and url_success of the page shown after the submit
FormCheck ==
    /\ pc = "form_check"
    /\ LET t == check_title(webdriver, title, probe.post_submit_title)
           u == check_url(webdriver, current_url, probe.post_submit_url)
       IN  IF t.raised # "" \/ u.raised # ""
           THEN /\ pc' = "raised"
                /\ exc' = IF t.raised # "" THEN t.raised ELSE u.raised
                /\ UNCHANGED <<form_run, ops>>
           ELSE /\ form_run' = [form_run EXCEPT !.title_success = t.value,
                                                !.url_success = u.value]
                /\ ops' = ops \o << Op("check_title", "", "", t.value),
                                    Op("check_url", "", "", u.value) >>
                /\ pc' = "form_finish"
                /\ exc' = exc
    /\ UNCHANGED <<probe, probe_metrics, webdriver, title, current_url, now,
                   runs, init_run, page_run, ret, run_started, adjusts, bstate, waits>>

\* the checks are combined, the timer is stopped, "form_submit" is written
\* and the result is returned
FormFinish ==
    /\ pc = "form_finish"
    /\ LET run_result == FormRunResult(form_run.page_success, form_run.input_success,
                                       form_run.submit_found, form_run.submit_success,
                                       form_run.title_success, form_run.url_success)
           timer_stop == now
       IN  /\ probe_metrics' = update_metrics(probe_metrics, "form_submit",
                                   form_run.timer_start, timer_stop, run_result)
           /\ form_run' = [form_run EXCEPT !.run_result = run_result]
           /\ ret' = run_result
    /\ now' = now + 1
    /\ ops' = Append(ops, Op("update_metrics", "form_submit", "", TRUE))
    /\ pc' = "returned"
    /\ UNCHANGED <<probe, webdriver, title, current_url, runs, init_run,
                   page_run, exc, run_started, adjusts, bstate, waits>>

(***************************************************************************)
(* The environment's clock: time() reads the host's wall clock.  Time      *)
(* passes between two readings; an adjustment (NTP step, operator) may set *)
(* the clock back to an earlier value while run() executes.                *)
(***************************************************************************)
ClockSetBack ==
    /\ pc \notin {"idle", "returned", "raised"}
    /\ adjusts < MaxAdjusts
    /\ adjusts' = adjusts + 1
    /\ \E t \in 0..MaxClock :
         /\ t < now
         /\ now' = t
    /\ UNCHANGED <<probe, probe_metrics, webdriver, title, current_url, pc,
                   runs, init_run, page_run, form_run, ret, exc, ops, run_started,
                   bstate, waits>>

(***************************************************************************)
(* The Browser helper on its own: Browser(...) is constructed, its scope   *)
(* is entered and left with `with`, and a caller calls its methods and its *)
(* webdriver.  A command sent to a remote session that was terminated      *)
(* fails with WebDriverException ("No active session").                    *)
(***************************************************************************)
\* Browser.check_title called on a Browser whose session is in `state`:
\* reading the title of a terminated session raises
call_check_title(wd, state, shown, expected_title) ==
    IF wd = "Remote" /\ state = "terminated" THEN Raise("WebDriverException")
    ELSE check_title(wd, shown, expected_title)

\* Browser.check_url called on a Browser whose session is in `state`
call_check_url(wd, state, shown, expected_url) ==
    IF wd = "Remote" /\ state = "terminated" THEN Raise("WebDriverException")
    ELSE check_url(wd, shown, expected_url)

\* Browser.wait_for_element_get_attribute called on a Browser whose session
\* is in `state`: WebDriverWait(None, ...).until(...) raises AttributeError,
\* which the except clause does not name; the WebDriverException of a
\* terminated session is caught like a timeout
call_wait_for_element_get_attribute(wd, state, present, attr) ==
    IF wd = "None"
    THEN [raised |-> "AttributeError", value |-> FALSE, attr |-> None]
    ELSE LET r == wait_for_element_get_attribute(state = "active" /\ present, attr)
         IN  [raised |-> "", value |-> r[1], attr |-> r[2]]

\* whether the scope of the Browser was left before
Exited == \E i \in 1..Len(blog) : blog[i].call = "__exit__"

\* the record of a call made on the Browser, as the caller sees it
Called(op, arg, xpath, timeout, raised, value, attr) ==
    [op |-> op, arg |-> arg, xpath |-> xpath, timeout |-> timeout,
     exited |-> Exited, raised |-> raised, value |-> value, attr |-> attr]

\* what the Browser helper on its own never changes
pstate ==
    <<probe, probe_metrics, now, pc, runs, init_run, page_run, form_run, ret,
      exc, ops, run_started, adjusts, probe_timeout, waits, other, vault>>

\* a Browser.__init__ that binds `opts` whatever the browserName is, and goes
\* on to open the session
BrowserOptions_any_name ==
    /\ browser.status = "new"
    /\ webdriver' = "None"
    /\ browser' = [browser EXCEPT !.status = "connect"]
    /\ UNCHANGED <<session, blog, last_call, title, current_url, pstate>>

\* Browser.__init__, up to the choice of the options: _browser is None, and
\* `opts` is bound for chrome and firefox only, so that opts.headless = True
\* raises UnboundLocalError for any other browserName
BrowserOptions ==
    /\ browser.status = "new"
    /\ webdriver' = "None"
    /\ IF browser.browserName \in {"chrome", "firefox"}
       THEN browser' = [browser EXCEPT !.status = "connect"]
       ELSE browser' = [browser EXCEPT !.status = "raised",
                                       !.exc = "UnboundLocalError"]
    /\ UNCHANGED <<session, blog, last_call, title, current_url, pstate>>

\* a Browser.__init__ that sets the page load timeout after the try
\* statement, whether or not the session was opened
BrowserConnect_without_else ==
    /\ browser.status = "connect"
    /\ \/ /\ webdriver' = "Remote"
          /\ session' = [state |-> "active", page_load_timeout |-> None]
          /\ blog' = Append(blog, Did("Remote", TRUE))
          /\ browser' = [browser EXCEPT !.status = "set_timeout"]
       \/ /\ blog' = blog \o << Did("Remote", FALSE), Did("logger.exception", TRUE),
                                Did("set_page_load_timeout", FALSE) >>
          /\ browser' = [browser EXCEPT !.status = "raised",
                                        !.exc = "AttributeError"]
          /\ UNCHANGED <<webdriver, session>>
    /\ UNCHANGED <<last_call, title, current_url, pstate>>

\* Browser.__init__, the try statement: Remote(...) opens the session, or it
\* raises, which is logged and leaves _browser None; the else clause is
\* skipped then and the constructor returns
BrowserConnect ==
    /\ browser.status = "connect"
    /\ \/ /\ webdriver' = "Remote"
          /\ session' = [state |-> "active", page_load_timeout |-> None]
          /\ blog' = Append(blog, Did("Remote", TRUE))
          /\ browser' = [browser EXCEPT !.status = "set_timeout"]
       \/ /\ blog' = blog \o << Did("Remote", FALSE), Did("logger.exception", TRUE) >>
          /\ browser' = [browser EXCEPT !.status = "constructed"]
          /\ UNCHANGED <<webdriver, session>>
    /\ UNCHANGED <<last_call, title, current_url, pstate>>

\* Browser.__init__, the else clause: set_page_load_timeout(page_load_timeout)
\* is outside the try block, so that its failure leaves the constructor as
\* an exception and no Browser instance is handed to the caller
BrowserSetTimeout ==
    /\ browser.status = "set_timeout"
    /\ \/ /\ session' = [session EXCEPT
                            !.page_load_timeout = Some(browser.page_load_timeout)]
          /\ blog' = Append(blog, Did("set_page_load_timeout", TRUE))
          /\ browser' = [browser EXCEPT !.status = "constructed"]
       \/ /\ blog' = Append(blog, Did("set_page_load_timeout", FALSE))
          /\ browser' = [browser EXCEPT !.status = "raised",
                                        !.exc = "WebDriverException"]
          /\ UNCHANGED session
    /\ UNCHANGED <<webdriver, last_call, title, current_url, pstate>>

\* Browser.__enter__: `with browser:` on the constructed instance
BrowserEnter ==
    /\ browser.status = "constructed"
    /\ browser.entered < MaxScopes
    /\ browser' = [browser EXCEPT !.depth = @ + 1, !.entered = @ + 1, !.exc = ""]
    /\ blog' = Append(blog, Did("__enter__", TRUE))
    /\ UNCHANGED <<webdriver, session, last_call, title, current_url, pstate>>

\* a Browser.__exit__ that clears the cookies and leaves the session open
BrowserExit_without_quit ==
    /\ browser.status = "constructed"
    /\ browser.depth > 0
    /\ \E why \in {"return", "error", "early"} :
         IF webdriver = "Remote"
         THEN IF session.state = "active"
              THEN /\ blog' = blog \o << Did("__exit__", TRUE),
                                         Did("delete_all_cookies", TRUE) >>
                   /\ browser' = [browser EXCEPT !.depth = @ - 1, !.left = why,
                                                 !.exc = ""]
              ELSE /\ blog' = blog \o << Did("__exit__", TRUE),
                                         Did("delete_all_cookies", FALSE) >>
                   /\ browser' = [browser EXCEPT !.depth = @ - 1, !.left = why,
                                                 !.exc = "WebDriverException"]
         ELSE /\ blog' = Append(blog, Did("__exit__", TRUE))
              /\ browser' = [browser EXCEPT !.depth = @ - 1, !.left = why, !.exc = ""]
    /\ UNCHANGED <<webdriver, session, last_call, title, current_url, pstate>>

\* Browser.__exit__, however the scope is left: when _browser is a Remote,
\* delete_all_cookies() and then quit(); _browser is kept, so that leaving a
\* scope again sends delete_all_cookies() to the terminated session, which
\* raises before quit() is reached
BrowserExit ==
    /\ browser.status = "constructed"
    /\ browser.depth > 0
    /\ \E why \in {"return", "error", "early"} :
         IF webdriver = "Remote"
         THEN IF session.state = "active"
              THEN /\ blog' = blog \o << Did("__exit__", TRUE),
                                         Did("delete_all_cookies", TRUE),
                                         Did("quit", TRUE) >>
                   /\ session' = [session EXCEPT !.state = "terminated"]
                   /\ browser' = [browser EXCEPT !.depth = @ - 1, !.left = why,
                                                 !.exc = ""]
              ELSE /\ blog' = blog \o << Did("__exit__", TRUE),
                                         Did("delete_all_cookies", FALSE) >>
                   /\ browser' = [browser EXCEPT !.depth = @ - 1, !.left = why,
                                                 !.exc = "WebDriverException"]
                   /\ UNCHANGED session
         ELSE /\ blog' = Append(blog, Did("__exit__", TRUE))
              /\ browser' = [browser EXCEPT !.depth = @ - 1, !.left = why, !.exc = ""]
              /\ UNCHANGED session
    /\ UNCHANGED <<webdriver, last_call, title, current_url, pstate>>

\* a caller calls check_title(expected_title) on the constructed Browser
CallCheckTitle ==
    /\ browser.status = "constructed"
    /\ \E expected \in {None} \cup { Some(s) : s \in Strings } :
         LET r == call_check_title(webdriver, session.state, title, expected)
         IN  last_call' = Called("check_title", expected, "", 0,
                                 r.raised, r.value, None)
    /\ UNCHANGED <<webdriver, browser, session, blog, title, current_url, pstate>>

\* a caller calls check_url(expected_url) on the constructed Browser
CallCheckUrl ==
    /\ browser.status = "constructed"
    /\ \E expected \in {None} \cup { Some(s) : s \in Strings } :
         LET r == call_check_url(webdriver, session.state, current_url, expected)
         IN  last_call' = Called("check_url", expected, "", 0,
                                 r.raised, r.value, None)
    /\ UNCHANGED <<webdriver, browser, session, blog, title, current_url, pstate>>

\* a caller calls wait_for_element_get_attribute(xpath, "innerHTML",
\* wait_timeout): the element appears in time or not, and its attribute has
\* a value or is absent
CallWaitForElement ==
    /\ browser.status = "constructed"
    /\ \E xpath \in XPaths, wait_timeout \in Timeouts, present \in BOOLEAN,
          attr \in {None, Some(title)} :
         LET r == call_wait_for_element_get_attribute(webdriver, session.state,
                                                      present, attr)
         IN  last_call' = Called("wait_for_element_get_attribute", None, xpath,
                                 wait_timeout, r.raised, r.value, r.attr)
    /\ UNCHANGED <<webdriver, browser, session, blog, title, current_url, pstate>>

\* a caller calls wait_for_page_to_load(): the wait for the title element
\* with the arguments wait_for_element_get_attribute defaults to; only the
\* success flag is returned
CallWaitForPageToLoad ==
    /\ browser.status = "constructed"
    /\ \E present \in BOOLEAN :
         LET r == call_wait_for_element_get_attribute(webdriver, session.state,
                                                      present, Some(title))
         IN  last_call' = Called("wait_for_page_to_load", None, "/html/head/title",
                                 wait_for_page_to_load_timeout(browser.page_load_timeout),
                                 r.raised, r.value, None)
    /\ UNCHANGED <<webdriver, browser, session, blog, title, current_url, pstate>>

\* a caller navigates with browser.webdriver.get(url): a live session loads
\* some page or fails, a terminated session fails
CallGet ==
    /\ browser.status = "constructed"
    /\ webdriver = "Remote"
    /\ \/ /\ session.state = "active"
          /\ title' \in PageStrings
          /\ current_url' \in PageStrings
          /\ last_call' = Called("get", None, "", 0, "", TRUE, None)
       \/ /\ last_call' = Called("get", None, "", 0, "WebDriverException",
                                 FALSE, None)
          /\ UNCHANGED <<title, current_url>>
    /\ UNCHANGED <<webdriver, browser, session, blog, pstate>>

(***************************************************************************)
(* The AzureKeyVault helper: AzureKeyVault(...) is constructed and a  *)
(* caller gets and sets secrets.  The Key Vault is the environment: a      *)
(* request is served or fails with KeyVaultErrorException.                 *)
(***************************************************************************)
\* what the AzureKeyVault helper never changes
nvault ==
    <<probe, probe_metrics, webdriver, title, current_url, now, pc, runs,
      init_run, page_run, form_run, ret, exc, ops, run_started, adjusts,
      probe_timeout, waits, browser, session, blog, last_call, other>>

\* the outcome of a method of AzureKeyVault, as the caller sees it
VaultCalled(op, name, value, raised, result) ==
    [op |-> op, name |-> name, value |-> value, raised |-> raised,
     result |-> result]

\* the secrets after `name` was set to `value`
WithSecret(secrets, name, value) ==
    [n \in (DOMAIN secrets) \cup {name} |-> IF n = name THEN value ELSE secrets[n]]

\* AzureKeyVault.__init__: without vault_name it logs and raises ValueError
\* at once; otherwise it creates the credentials (Service Principal when
\* app_id is given, Managed Identity otherwise) and then the client
VaultInit ==
    /\ vault.status = "new"
    /\ IF vault.vault_name = None
       THEN vault' = [vault EXCEPT
                         !.status = "raised",
                         !.last = VaultCalled("__init__", None, None, "ValueError", None)]
       ELSE vault' = [vault EXCEPT
                         !.status = "constructed",
                         !.creds = IF vault.app_id # None
                                   THEN "ServicePrincipalCredentials"
                                   ELSE "MSIAuthentication",
                         !.client = TRUE,
                         !.last = VaultCalled("__init__", None, None, "", None)]
    /\ UNCHANGED nvault

\* AzureKeyVault.get_secret: without secret_name it logs and raises
\* ValueError; otherwise it asks the Key Vault, and returns the secret or,
\* after a KeyVaultErrorException, None
VaultGetSecret ==
    /\ vault.status = "constructed"
    /\ \E secret_name \in {None} \cup { Some(n) : n \in SecretNames } :
         IF secret_name = None
         THEN vault' = [vault EXCEPT
                           !.last = VaultCalled("get_secret", None, None, "ValueError", None)]
         ELSE /\ vault.contacts < MaxContacts
              /\ \/ /\ Val(secret_name) \in DOMAIN vault.secrets
                    /\ vault' = [vault EXCEPT
                                    !.contacts = @ + 1,
                                    !.last = VaultCalled("get_secret", secret_name, None, "",
                                                         Some(vault.secrets[Val(secret_name)]))]
                 \/ vault' = [vault EXCEPT
                                 !.contacts = @ + 1,
                                 !.last = VaultCalled("get_secret", secret_name, None, "", None)]
    /\ UNCHANGED nvault

\* a set_secret that hands a missing secret_value to the Key Vault
VaultSetSecret_value_unchecked ==
    /\ vault.status = "constructed"
    /\ \E secret_name \in {None} \cup { Some(n) : n \in SecretNames },
          secret_value \in {None} \cup { Some(v) : v \in SecretValues } :
         IF secret_name = None
         THEN vault' = [vault EXCEPT
                           !.last = VaultCalled("set_secret", None, secret_value,
                                                "ValueError", None)]
         ELSE /\ vault.contacts < MaxContacts
              /\ vault' = [vault EXCEPT
                              !.contacts = @ + 1,
                              !.last = VaultCalled("set_secret", secret_name, secret_value,
                                                   "", None)]
    /\ UNCHANGED nvault

\* AzureKeyVault.set_secret: without secret_name, and then without
\* secret_value, it logs and raises ValueError; otherwise it asks the Key
\* Vault to store the value, and returns the stored secret or, after a
\* KeyVaultErrorException, None
VaultSetSecret ==
    /\ vault.status = "constructed"
    /\ \E secret_name \in {None} \cup { Some(n) : n \in SecretNames },
          secret_value \in {None} \cup { Some(v) : v \in SecretValues } :
         IF secret_name = None \/ secret_value = None
         THEN vault' = [vault EXCEPT
                           !.last = VaultCalled("set_secret", secret_name, secret_value,
                                                "ValueError", None)]
         ELSE /\ vault.contacts < MaxContacts
              /\ \/ vault' = [vault EXCEPT
                                 !.contacts = @ + 1,
                                 !.secrets = WithSecret(@, Val(secret_name), Val(secret_value)),
                                 !.last = VaultCalled("set_secret", secret_name, secret_value,
                                                      "", secret_value)]
                 \/ vault' = [vault EXCEPT
                                 !.contacts = @ + 1,
                                 !.last = VaultCalled("set_secret", secret_name, secret_value,
                                                      "", None)]
    /\ UNCHANGED nvault

(***************************************************************************)
(* A caller with two probe instances: `probe` and `probe_metrics` are the  *)
(* instance whose run() is or was last invoked, `other` holds the instance *)
(* that waits.  Each instance got its own _probe_metrics from __init__.    *)
(***************************************************************************)
\* two instances that share one _probe_metrics dictionary
SwitchProbe_shared_metrics ==
    /\ Len(other) = 1
    /\ pc \in {"idle", "returned", "raised"}
    /\ runs < MaxRuns
    /\ probe' = other[1].probe
    /\ other' = << [probe |-> probe, metrics |-> probe_metrics] >>
    /\ pc' = "idle"
    /\ UNCHANGED <<probe_metrics, webdriver, title, current_url, now, runs,
                   init_run, page_run, form_run, ret, exc, ops, run_started,
                   adjusts, probe_timeout, waits, browser, session, blog,
                   last_call, vault>>

\* between two runs the caller turns to its other instance: the next run()
\* is invoked on it, and writes into its _probe_metrics
SwitchProbe ==
    /\ Len(other) = 1
    /\ pc \in {"idle", "returned", "raised"}
    /\ runs < MaxRuns
    /\ probe' = other[1].probe
    /\ probe_metrics' = other[1].metrics
    /\ other' = << [probe |-> probe, metrics |-> probe_metrics] >>
    /\ pc' = "idle"
    /\ UNCHANGED <<webdriver, title, current_url, now, runs, init_run, page_run,
                   form_run, ret, exc, ops, run_started, adjusts, probe_timeout,
                   waits, browser, session, blog, last_call, vault>>

(***************************************************************************)
(* Specifications.                                                         *)
(***************************************************************************)
Next ==
    \/ AbstractStart
    \/ AbstractFinish
    \/ PageStart
    \/ PageGet
    \/ PageWait
    \/ PageCheck
    \/ PageFinish
    \/ FormStart
    \/ FormInput
    \/ FormFindSubmit
    \/ FormClick
    \/ FormWait
    \/ FormCheck
    \/ FormFinish

Spec == Init /\ [][Next]_vars

\* the probes run on the host whose clock is adjusted: one of each class,
\* checking no title and no URL
ClockProbes ==
    { p \in Probes :
        /\ p.expected_title = None /\ p.expected_url = None
        /\ p.post_submit_title = None /\ p.post_submit_url = None
        /\ p.class = "ProbeForm" =>
              p.input_params # None /\ Len(Val(p.input_params)) = 1
                                    /\ Val(p.input_params)[1].name = "q" }

InitClock == InitWith(ClockProbes)

\* the same program on a host whose wall clock is adjusted while it runs
NextClock ==
    \/ Next
    \/ ClockSetBack

SpecClock == InitClock /\ [][NextClock]_vars

\* the caller of Browser(...) chose the capabilities and the page load
\* timeout; nothing of the constructor ran yet
InitBrowser ==
    /\ InitProbe({ p \in Probes : p.class = "ProbeAbstract" }, {probe_timeout_default})
    /\ webdriver = "None"
    /\ title = << >>
    /\ current_url = << >>
    /\ last_call = NoCall
    /\ \E name \in BrowserNames, timeout \in Timeouts :
         browser = [browserName |-> name, page_load_timeout |-> timeout,
                    status |-> "new", depth |-> 0, entered |-> 0, left |-> "",
                    exc |-> ""]
    /\ session = [state |-> "none", page_load_timeout |-> None]
    /\ blog = << >>

NextBrowser ==
    \/ BrowserOptions
    \/ BrowserConnect
    \/ BrowserSetTimeout
    \/ BrowserEnter
    \/ BrowserExit
    \/ CallWaitForPageToLoad
    \/ CallGet

\* the life of a Browser instance: construction, scopes, navigation
SpecBrowser == InitBrowser /\ [][NextBrowser]_vars

\* a constructed Browser in each state it can be in (the session was not
\* opened, is open, or was terminated when the scope was left) showing any
\* title and URL
InitCalls ==
    /\ InitProbe({ p \in Probes : p.class = "ProbeAbstract" }, {probe_timeout_default})
    /\ \E state \in {"none", "active", "terminated"} :
         /\ webdriver = IF state = "none" THEN "None" ELSE "Remote"
         /\ session = [state |-> state,
                       page_load_timeout |->
                           IF state = "none" THEN None
                           ELSE Some(page_load_timeout_default)]
         /\ browser = [browserName |-> "chrome",
                       page_load_timeout |-> page_load_timeout_default,
                       status |-> "constructed",
                       depth |-> IF state = "terminated" THEN 0 ELSE 1,
                       entered |-> 1,
                       left |-> IF state = "terminated" THEN "return" ELSE "",
                       exc |-> ""]
         /\ blog = IF state = "none"
                   THEN << Did("Remote", FALSE), Did("logger.exception", TRUE),
                           Did("__enter__", TRUE) >>
                   ELSE << Did("Remote", TRUE), Did("set_page_load_timeout", TRUE),
                           Did("__enter__", TRUE) >>
                        \o IF state = "terminated"
                           THEN << Did("__exit__", TRUE),
                                   Did("delete_all_cookies", TRUE),
                                   Did("quit", TRUE) >>
                           ELSE << >>
         /\ title \in IF state = "none" THEN { << >> } ELSE Strings
         /\ current_url \in IF state = "none" THEN { << >> } ELSE Strings
    /\ last_call = NoCall

NextCalls ==
    \/ CallCheckTitle
    \/ CallCheckUrl
    \/ CallWaitForElement

\* the methods of a constructed Browser, called in any order
SpecCalls == InitCalls /\ [][NextCalls]_vars

\* the caller of AzureKeyVault(...) chose the keyword arguments;
\* nothing of the constructor ran yet
InitVault ==
    /\ InitInstance({ p \in Probes : p.class = "ProbeAbstract" }, {probe_timeout_default})
    /\ InitConstructed
    /\ other = << >>
    /\ \E vault_name \in {None, Some("kv")}, app_id \in {None, Some("sp")} :
         vault = [NoVault EXCEPT !.status = "new", !.vault_name = vault_name,
                                 !.app_id = app_id]

NextVault ==
    \/ VaultInit
    \/ VaultGetSecret
    \/ VaultSetSecret

\* the AzureKeyVault helper driven by a caller
SpecVault == InitVault /\ [][NextVault]_vars

\* two probe instances were constructed for one Browser
InitTwo ==
    /\ InitInstance(ClockProbes, {probe_timeout_default})
    /\ InitConstructed
    /\ other \in { << [probe |-> p, metrics |-> [t \in {} |-> 0]] >> : p \in ClockProbes }
    /\ vault = NoVault

NextTwo ==
    \/ Next
    \/ SwitchProbe

\* the probes of a caller with two instances, run in any order
SpecTwo == InitTwo /\ [][NextTwo]_vars

\* probes constructed with any probe_timeout
InitTimeout == InitProbe(ClockProbes, Timeouts) /\ InitConstructed

\* the probes run with a configured probe_timeout
SpecTimeout == InitTimeout /\ [][Next]_vars

(***************************************************************************)
(* What the call log of the current run() says.                            *)
(***************************************************************************)
\* run() is over: it returned or it raised
Done == pc \in {"returned", "raised"}

\* the log entry that writes the record of `tag`
IsWrite(i, tag) == ops[i].op = "update_metrics" /\ ops[i].arg = tag

\* the record of `tag` was written by the current run()
Written(tag) == \E i \in 1..Len(ops) : IsWrite(i, tag)

\* entry i was logged by ProbePage.run, before it wrote "page_load"
InPageStage(i) == \A k \in 1..i : ~IsWrite(k, "page_load")

\* entry i was logged by ProbeForm.run, after "page_load" was written
InFormStage(i) == \E k \in 1..(i - 1) : IsWrite(k, "page_load")

PageDid(o, ok) ==
    \E i \in 1..Len(ops) : InPageStage(i) /\ ops[i].op = o /\ ops[i].ok = ok

FormDid(o, ok) ==
    \E i \in 1..Len(ops) : InFormStage(i) /\ ops[i].op = o /\ ops[i].ok = ok

\* the calls that touch the remote browser
SessionOps ==
    {"get", "wait_for_page_to_load", "check_title", "check_url",
     "find_element_by_name", "send_keys", "find_element_by_xpath", "click"}

RecordFields == {"success", "timestamp_start", "timestamp_finish", "duration"}

\* the result the stage writing `tag` computed in the current run()
StageResult(tag) ==
    IF tag = "init" THEN init_run.run_result
    ELSE IF tag = "page_load" THEN page_run.run_result
    ELSE form_run.run_result

(***************************************************************************)
(* C1: for every probe class, configuration and outcome of the session's   *)
(* operations, run() raises nothing and, once it returned, the record of   *)
(* the probe's own tag is written.  Stated for a Browser whose session was *)
(* opened; the code violates it (a form probe built with the default       *)
(* input_params, a failure while typing or clicking).                      *)
(***************************************************************************)
C1_RunNeverRaises ==
    webdriver = "Remote" =>
        /\ pc # "raised"
        /\ pc = "returned" => OwnTag(probe.class) \in DOMAIN probe_metrics

(***************************************************************************)
(* C2: a page or form probe run against a Browser whose webdriver is None  *)
(* does not raise: it returns False and "page_load" is written with        *)
(* success False.  The code violates it.                                   *)
(***************************************************************************)
C2_NullSessionRunReturnsFalse ==
    (webdriver = "None" /\ probe.class # "ProbeAbstract" /\ Done) =>
        /\ pc = "returned"
        /\ ret = FALSE
        /\ "page_load" \in DOMAIN probe_metrics
        /\ ~probe_metrics["page_load"].success

(***************************************************************************)
(* C3: after run() returned, the metrics hold one record for each tag of   *)
(* the probe's chain and for no other tag, every record has the four       *)
(* fields, and the success of the probe's own tag is the returned value.   *)
(***************************************************************************)
C3_RecordsAfterReturn ==
    pc = "returned" =>
        /\ DOMAIN probe_metrics = ChainTags(probe.class)
        /\ \A t \in DOMAIN probe_metrics : DOMAIN probe_metrics[t] = RecordFields
        /\ probe_metrics[OwnTag(probe.class)].success = ret

C3_Witness ==
    /\ pc = "returned"
    /\ probe.class = "ProbeForm"
    /\ ret = TRUE
    /\ probe_metrics["init"].success

(***************************************************************************)
(* C4, as stated: every record has duration = timestamp_finish -           *)
(* timestamp_start and duration >= 0, whatever the clock returns.          *)
(* Violated when the clock is set back between the two readings.           *)
(***************************************************************************)
C4_DurationNonNegative ==
    \A t \in DOMAIN probe_metrics :
        /\ probe_metrics[t].duration =
              probe_metrics[t].timestamp_finish - probe_metrics[t].timestamp_start
        /\ probe_metrics[t].duration >= 0

(***************************************************************************)
(* C4, amended: every record has duration = timestamp_finish -             *)
(* timestamp_start, and duration >= 0 as long as the clock was never set   *)
(* back.                                                                   *)
(***************************************************************************)
C4_DurationIsDifference ==
    \A t \in DOMAIN probe_metrics :
        /\ probe_metrics[t].duration =
              probe_metrics[t].timestamp_finish - probe_metrics[t].timestamp_start
        /\ adjusts = 0 => probe_metrics[t].duration >= 0

C4_Witness ==
    /\ pc = "returned"
    /\ probe.class = "ProbeForm"
    /\ adjusts = 0
    /\ probe_metrics["form_submit"].duration > 0

(***************************************************************************)
(* C5: after any number of runs, when run() returned the tags are those of *)
(* the chain (as after the first run) and every record was written by the  *)
(* most recent run: its timestamps were read after that run was invoked    *)
(* and its success is the result that run computed for the tag.  (Under    *)
(* Spec the clock advances with every reading, so a timestamp tells which  *)
(* run read it.)                                                           *)
(***************************************************************************)
C5_RerunOverwrites ==
    pc = "returned" =>
        /\ DOMAIN probe_metrics = ChainTags(probe.class)
        /\ \A t \in DOMAIN probe_metrics :
              /\ probe_metrics[t].timestamp_start >= run_started
              /\ probe_metrics[t].timestamp_finish > run_started
              /\ probe_metrics[t].success = StageResult(t)

C5_Witness ==
    /\ pc = "returned"
    /\ runs = 2
    /\ probe.class = "ProbeForm"
    /\ run_started > 0
    /\ probe_metrics["page_load"].success
    /\ ~probe_metrics["form_submit"].success

(***************************************************************************)
(* C6: once ProbePage.run returned, its result is True exactly when the    *)
(* navigation did not fail, the wait returned True and check_title and     *)
(* check_url returned True; with no expectation, a navigation and a wait   *)
(* that succeed give True, and the expected title "ab" against the title   *)
(* "acb" gives False.                                                      *)
(***************************************************************************)
C6_PageResult ==
    (probe.class # "ProbeAbstract" /\ Written("page_load")) =>
        /\ page_run.run_result <=>
              /\ PageDid("get", TRUE)
              /\ PageDid("wait_for_page_to_load", TRUE)
              /\ PageDid("check_title", TRUE)
              /\ PageDid("check_url", TRUE)
        /\ (probe.class = "ProbePage" /\ pc = "returned") => ret = page_run.run_result
        /\ ( /\ probe.expected_title = None
             /\ probe.expected_url = None
             /\ PageDid("get", TRUE)
             /\ PageDid("wait_for_page_to_load", TRUE) ) => page_run.run_result
        /\ ( /\ probe.class = "ProbePage"
             /\ probe.expected_title = Some(<<"a", "b">>)
             /\ title = <<"a", "c", "b">> ) => ~page_run.run_result

C6_Witness ==
    /\ pc = "returned"
    /\ probe.class = "ProbePage"
    /\ probe.expected_title = Some(<<"a", "b">>)
    /\ probe.expected_url = Some(<<"a", "b">>)
    /\ title = <<"c", "a", "b">>
    /\ ret = TRUE

(***************************************************************************)
(* C7: once ProbeForm.run returned, its result is True exactly when the    *)
(* page probe returned True, every field of input_params was located, the  *)
(* submit element was located, the click did not fail, the wait after the  *)
(* click returned True and both checks after the submit returned True.     *)
(***************************************************************************)
C7_FormResult ==
    (probe.class = "ProbeForm" /\ pc = "returned") =>
        ( ret <=>
            /\ page_run.run_result
            /\ \A f \in 1..Len(Val(probe.input_params)) :
                  \E i \in 1..Len(ops) :
                     /\ ops[i].op = "find_element_by_name"
                     /\ ops[i].arg = Val(probe.input_params)[f].name
                     /\ ops[i].ok
            /\ FormDid("find_element_by_xpath", TRUE)
            /\ FormDid("click", TRUE)
            /\ FormDid("wait_for_page_to_load", TRUE)
            /\ FormDid("check_title", TRUE)
            /\ FormDid("check_url", TRUE) )

C7_Witness ==
    /\ pc = "returned"
    /\ probe.class = "ProbeForm"
    /\ page_run.run_result
    /\ Len(Val(probe.input_params)) = 2
    /\ FormDid("find_element_by_name", FALSE)
    /\ FormDid("check_url", TRUE)
    /\ FormDid("check_title", TRUE)
    /\ ret = FALSE

(***************************************************************************)
(* C8: when the navigation of the page probe failed or its wait for the    *)
(* page timed out, run() does not raise, it returns False, and "page_load" *)
(* is written by this run with success False.                              *)
(***************************************************************************)
C8_PageFailure ==
    (PageDid("get", FALSE) \/ PageDid("wait_for_page_to_load", FALSE)) =>
        /\ pc # "raised"
        /\ pc \in {"page_finish", "form_start", "form_finish", "returned"}
        /\ ~PageDid("check_title", TRUE) /\ ~PageDid("check_title", FALSE)
        /\ pc # "page_finish" =>
              /\ Written("page_load")
              /\ ~probe_metrics["page_load"].success
              /\ probe_metrics["page_load"].timestamp_start >= run_started
        /\ pc = "returned" => ret = FALSE

C8_Witness ==
    /\ pc = "returned"
    /\ probe.class = "ProbePage"
    /\ PageDid("get", TRUE)
    /\ PageDid("wait_for_page_to_load", FALSE)
    /\ ret = FALSE

(***************************************************************************)
(* C9: when the page loaded and a field of input_params matched no         *)
(* element, every field of the mapping is still looked up, every field     *)
(* that was found received its value, and run() returns False.  The code   *)
(* violates it when typing into a found field or the click fails (C1).     *)
(***************************************************************************)
C9_MissingFieldNoShortCircuit ==
    ( /\ probe.class = "ProbeForm"
      /\ Done
      /\ FormDid("find_element_by_name", FALSE) ) =>
        /\ pc = "returned"
        /\ ret = FALSE
        /\ \A f \in 1..Len(Val(probe.input_params)) :
              \E i \in 1..Len(ops) :
                 /\ ops[i].op = "find_element_by_name"
                 /\ ops[i].arg = Val(probe.input_params)[f].name
                 /\ ops[i].ok =>
                       /\ i < Len(ops)
                       /\ ops[i + 1] = Op("send_keys", ops[i].arg,
                                          Val(probe.input_params)[f].value, TRUE)

(***************************************************************************)
(* C10: when the submit element was not found, nothing touches the remote  *)
(* browser after the failed lookup (no click, no wait, no check), run()    *)
(* does not raise and it returns False.                                    *)
(***************************************************************************)
C10_NoClickWithoutSubmit ==
    \A i \in 1..Len(ops) :
        (ops[i].op = "find_element_by_xpath" /\ ~ops[i].ok) =>
            /\ \A k \in (i + 1)..Len(ops) : ops[k].op \notin SessionOps
            /\ pc \in {"form_finish", "returned"}
            /\ ~form_run.submit_found
            /\ pc = "returned" => ret = FALSE

C10_Witness ==
    /\ pc = "returned"
    /\ probe.class = "ProbeForm"
    /\ FormDid("find_element_by_xpath", FALSE)
    /\ FormDid("send_keys", TRUE)
    /\ ret = FALSE

(***************************************************************************)
(* C11: check_title() and check_url() called without an expected string    *)
(* (None) return True in every state of the Browser and of the page shown: *)
(* none returns False, none raises.  The code violates it: both read the   *)
(* title (the URL) for the log before they test the argument, which raises *)
(* when _browser is None and when the session was terminated.              *)
(***************************************************************************)
C11_NoneAlwaysPasses ==
    (last_call.op \in {"check_title", "check_url"} /\ last_call.arg = None) =>
        last_call.raised = "" /\ last_call.value

(***************************************************************************)
(* C12: on a Browser whose session is live, for every expected string and  *)
(* every title shown, check_title(expected) raises nothing and returns     *)
(* True exactly when the title is some string, then the expected string,   *)
(* then some string (so the empty expected string always matches), and     *)
(* False otherwise; check_url does the same with the URL shown.            *)
(***************************************************************************)
\* t is pre + e + post for some strings pre and post
Contiguous(e, t) ==
    \E pre \in Strings, post \in Strings : t = pre \o e \o post

C12_SubstringCheck ==
    /\ (/\ last_call.op = "check_title"
        /\ last_call.arg # None
        /\ session.state = "active") =>
           /\ last_call.raised = ""
           /\ last_call.value <=> Contiguous(Val(last_call.arg), title)
    /\ (/\ last_call.op = "check_url"
        /\ last_call.arg # None
        /\ session.state = "active") =>
           /\ last_call.raised = ""
           /\ last_call.value <=> Contiguous(Val(last_call.arg), current_url)
    /\ (/\ last_call.op \in {"check_title", "check_url"}
        /\ last_call.arg = Some(<< >>)
        /\ session.state = "active") => last_call.value

\* "aa" was expected of the title "ba": the check returned False
C12_Witness ==
    /\ session.state = "active"
    /\ last_call.op = "check_title"
    /\ last_call.arg = Some(<<"a", "a">>)
    /\ title = <<"b", "a">>
    /\ last_call.raised = ""
    /\ ~last_call.value

C14_WaitUsesPageLoadTimeout ==
    last_call.op = "wait_for_page_to_load" =>
        /\ last_call.xpath = "/html/head/title"
        /\ last_call.timeout = browser.page_load_timeout

(***************************************************************************)
(* C14, amended: wait_for_page_to_load waits for /html/head/title with the *)
(* default wait_timeout of wait_for_element_get_attribute, 10 seconds,     *)
(* whatever page_load_timeout the Browser was constructed with; the        *)
(* page_load_timeout is what the constructor sets on the session opened.   *)
(***************************************************************************)
C14_WaitUsesDefaultTimeout ==
    /\ last_call.op = "wait_for_page_to_load" =>
          /\ last_call.xpath = "/html/head/title"
          /\ last_call.timeout = wait_timeout_default
    /\ session.page_load_timeout \in {None, Some(browser.page_load_timeout)}
    /\ (browser.status = "constructed" /\ webdriver = "Remote") =>
          session.page_load_timeout = Some(browser.page_load_timeout)

\* a Browser constructed with page_load_timeout 30 waited for a page that
\* loaded
C14_Witness ==
    /\ browser.page_load_timeout = 30
    /\ session.page_load_timeout = Some(30)
    /\ last_call.op = "wait_for_page_to_load"
    /\ last_call.timeout = 10
    /\ last_call.value

(***************************************************************************)
(* C15: every wait made during the run of a probe is bounded by the        *)
(* probe_timeout the probe was constructed with.  The code violates it:    *)
(* _probe_timeout is stored and never read, and every wait of a run lasts  *)
(* up to the default 10 seconds.                                           *)
(***************************************************************************)
C15_WaitsBoundedByProbeTimeout ==
    \A t \in waits : t <= probe_timeout

(***************************************************************************)
(* What the log of the calls Browser made says.                            *)
(***************************************************************************)
\* how many times Browser made the call
Count(call) == Cardinality({ i \in 1..Len(blog) : blog[i].call = call })

\* Remote(...) was called and raised
ConnectFailed == \E i \in 1..Len(blog) : blog[i] = Did("Remote", FALSE)

(***************************************************************************)
(* C16: when Remote(...) fails to open the session, the constructor raises *)
(* nothing and returns a Browser whose webdriver is None; the failure is   *)
(* logged right away and set_page_load_timeout is never called.            *)
(***************************************************************************)
C16_ConnectFailureAbsorbed ==
    \A i \in 1..Len(blog) :
        blog[i] = Did("Remote", FALSE) =>
            /\ browser.status = "constructed"
            /\ browser.exc = ""
            /\ webdriver = "None"
            /\ session = [state |-> "none", page_load_timeout |-> None]
            /\ i < Len(blog)
            /\ blog[i + 1] = Did("logger.exception", TRUE)
            /\ Count("set_page_load_timeout") = 0

\* the constructor returned after the connection failed
C16_Witness ==
    /\ ConnectFailed
    /\ browser.status = "constructed"
    /\ webdriver = "None"
    /\ browser.entered = 0

(***************************************************************************)
(* C17: every time the scope of a Browser is left (by a return, an error   *)
(* or an early exit) with _browser not None, delete_all_cookies() and then *)
(* quit() are carried out, in that order; with _browser None neither is    *)
(* called.  The code violates it when the scope of the same instance is    *)
(* left again (C18): delete_all_cookies() fails on the terminated session  *)
(* and quit() is not reached.                                              *)
(***************************************************************************)
C17_ExitCleansUp ==
    \A i \in 1..Len(blog) :
        blog[i].call = "__exit__" =>
            IF webdriver = "Remote"
            THEN /\ i + 2 <= Len(blog)
                 /\ blog[i + 1] = Did("delete_all_cookies", TRUE)
                 /\ blog[i + 2] = Did("quit", TRUE)
            ELSE Count("delete_all_cookies") = 0 /\ Count("quit") = 0

(***************************************************************************)
(* C18: over the life of a Browser whose session was opened, whatever      *)
(* scopes the caller enters and leaves, the cleanup happens exactly once:  *)
(* one delete_all_cookies() and one quit().  The code violates it:         *)
(* __exit__ keeps _browser, so leaving a scope again calls                 *)
(* delete_all_cookies() again, on the terminated session.                  *)
(***************************************************************************)
C18_CleanupExactlyOnce ==
    (webdriver = "Remote" /\ Exited) =>
        /\ Count("delete_all_cookies") = 1
        /\ Count("quit") = 1
        /\ browser.exc = ""

(***************************************************************************)
(* C19: a session opened by the constructor is cleaned up also when the    *)
(* constructor fails after opening it: once the constructor raised, no     *)
(* session is left open.  The code violates it: a failure of               *)
(* set_page_load_timeout leaves the constructor with the session open and  *)
(* no instance whose scope could be left.                                  *)
(***************************************************************************)
C19_NoSessionLeftOpen ==
    browser.status = "raised" => session.state # "active"

(***************************************************************************)
(* C20: once the scope of a connected Browser was left, the session is     *)
(* terminated and webdriver still is the Remote: every navigation made     *)
(* through it afterwards raises WebDriverException, none succeeds.         *)
(***************************************************************************)
C20_TerminatedStillExposed ==
    /\ (Exited /\ session.state # "none") =>
          /\ session.state = "terminated"
          /\ webdriver = "Remote"
    /\ (last_call.op = "get" /\ last_call.exited) =>
          /\ last_call.raised = "WebDriverException"
          /\ ~last_call.value

\* a navigation made after the scope was left raised
C20_Witness ==
    /\ webdriver = "Remote"
    /\ browser.depth = 0
    /\ last_call.op = "get"
    /\ last_call.exited
    /\ last_call.raised = "WebDriverException"

(***************************************************************************)
(* C21, as stated: the constructor of a Browser whose capabilities name a  *)
(* browser other than chrome or firefox raises nothing and goes on to open *)
(* the session.  Violated: `opts` is not bound for such a name, and        *)
(* opts.headless = True raises before the try statement.                   *)
(***************************************************************************)
C21_UnknownBrowserProceeds ==
    browser.browserName \notin {"chrome", "firefox"} =>
        /\ browser.status # "raised"
        /\ browser.status = "constructed" => Count("Remote") = 1

(***************************************************************************)
(* C21, amended: for a browserName other than chrome or firefox the        *)
(* constructor raises UnboundLocalError before the session is requested:   *)
(* no call is made on the driver, nothing is logged, no session is opened  *)
(* and no instance is constructed.                                         *)
(***************************************************************************)
C21_UnknownBrowserRaises ==
    (browser.browserName \notin {"chrome", "firefox"} /\ browser.status # "new") =>
        /\ browser.status = "raised"
        /\ browser.exc = "UnboundLocalError"
        /\ blog = << >>
        /\ webdriver = "None"
        /\ session.state = "none"

\* the constructor was called with the browserName opera and raised
C21_Witness ==
    /\ browser.browserName = "opera"
    /\ browser.status = "raised"
    /\ browser.exc = "UnboundLocalError"

(***************************************************************************)
(* C22: the configuration errors of AzureKeyVault are raised before the    *)
(* Key Vault is contacted: without vault_name the constructor raises       *)
(* ValueError with no credentials and no client created; get_secret and    *)
(* set_secret without secret_name, and set_secret without secret_value,    *)
(* raise ValueError in a step that sends no request and stores nothing.    *)
(***************************************************************************)
C22_ConfigErrorsBeforeContact ==
    [][/\ (vault.status = "new" /\ vault.vault_name = None) =>
             /\ vault'.status = "raised"
             /\ vault'.last.raised = "ValueError"
             /\ vault'.creds = "" /\ ~vault'.client
             /\ vault'.contacts = 0
       /\ (/\ vault.status = "constructed"
           /\ vault'.last # vault.last
           /\ vault'.last.op \in {"get_secret", "set_secret"}
           /\ vault'.last.name = None) =>
             /\ vault'.last.raised = "ValueError"
             /\ vault'.contacts = vault.contacts
             /\ vault'.secrets = vault.secrets
       /\ (/\ vault.status = "constructed"
           /\ vault'.last # vault.last
           /\ vault'.last.op = "set_secret"
           /\ vault'.last.value = None) =>
             /\ vault'.last.raised = "ValueError"
             /\ vault'.contacts = vault.contacts
             /\ vault'.secrets = vault.secrets]_vars

\* set_secret was called with a name and without a value after a secret was
\* stored: it raised and the Key Vault got no further request
C22_Witness ==
    /\ vault.status = "constructed"
    /\ vault.last.op = "set_secret"
    /\ vault.last.name # None
    /\ vault.last.value = None
    /\ vault.last.raised = "ValueError"
    /\ vault.contacts = 1
    /\ vault.secrets # NoVault.secrets

(***************************************************************************)
(* C23: when the page probe of a form probe returned False, the form probe *)
(* touches the remote browser no more (no lookup, no typing, no click, no  *)
(* wait, no check), does not raise, and returns False with "form_submit"   *)
(* written with success False.                                             *)
(***************************************************************************)
C23_NoFormWorkAfterPageFailure ==
    (probe.class = "ProbeForm" /\ Written("page_load") /\ ~page_run.run_result) =>
        /\ \A i \in 1..Len(ops) : InFormStage(i) => ops[i].op \notin SessionOps
        /\ pc \in {"form_start", "form_finish", "returned"}
        /\ pc = "returned" =>
              /\ IsWrite(Len(ops), "form_submit")
              /\ ~probe_metrics["form_submit"].success
              /\ ret = FALSE

\* a form probe with a field to fill returned after its page did not load
C23_Witness ==
    /\ pc = "returned"
    /\ probe.class = "ProbeForm"
    /\ probe.input_params # None
    /\ Len(Val(probe.input_params)) > 0
    /\ PageDid("get", FALSE)
    /\ ~page_run.run_result
    /\ Written("form_submit")

(***************************************************************************)
(* C24: in the page probe, wait_for_page_to_load is called only right      *)
(* after a navigation that did not fail, and check_title and check_url     *)
(* only right after a wait that returned True; checks that were skipped    *)
(* count as False.                                                         *)
(***************************************************************************)
C24_PageCallsGuarded ==
    /\ \A i \in 1..Len(ops) :
          InPageStage(i) =>
             /\ ops[i].op = "wait_for_page_to_load" =>
                   i > 1 /\ ops[i - 1] = Op("get", "", "", TRUE)
             /\ ops[i].op = "check_title" =>
                   /\ i > 1
                   /\ ops[i - 1] = Op("wait_for_page_to_load", "", "", TRUE)
             /\ ops[i].op = "check_url" =>
                   i > 1 /\ ops[i - 1].op = "check_title"
    /\ (Written("page_load") /\ ~PageDid("check_title", TRUE)
                             /\ ~PageDid("check_title", FALSE)) =>
          /\ ~page_run.title_success
          /\ ~page_run.url_success
          /\ ~page_run.run_result
          /\ ~probe_metrics["page_load"].success

\* the navigation succeeded, the wait timed out and the page probe ended
C24_Witness ==
    /\ Written("page_load")
    /\ PageDid("get", TRUE)
    /\ PageDid("wait_for_page_to_load", FALSE)
    /\ ~page_run.title_success
    /\ probe.expected_title = None

(***************************************************************************)
(* C25: when the submit element was found and the click on it fails, the   *)
(* failure is absorbed: no wait and no check follows, run() returns False  *)
(* and "form_submit" is written with success False.  The code violates it  *)
(* for a click that fails with anything but TimeoutException (C1).         *)
(***************************************************************************)
C25_ClickFailureAbsorbed ==
    \A i \in 1..Len(ops) :
        (ops[i].op = "click" /\ ~ops[i].ok) =>
            /\ pc # "raised"
            /\ \A k \in (i + 1)..Len(ops) : ops[k].op \notin SessionOps
            /\ pc = "returned" =>
                  ret = FALSE /\ ~probe_metrics["form_submit"].success

(***************************************************************************)
(* C26: the stages of a run are carried out in the order of the chain:     *)
(* nothing touches the remote browser before "init" was written by this    *)
(* run, and no form field or submit element is looked up, typed into or    *)
(* clicked before "page_load" was written by this run.                     *)
(***************************************************************************)
C26_StagesInChainOrder ==
    \A i \in 1..Len(ops) :
        /\ ops[i].op \in SessionOps =>
              /\ \E k \in 1..(i - 1) : IsWrite(k, "init")
              /\ "init" \in DOMAIN probe_metrics
        /\ ops[i].op \in {"find_element_by_name", "send_keys",
                          "find_element_by_xpath", "click"} =>
              /\ \E k \in 1..(i - 1) : IsWrite(k, "page_load")
              /\ "page_load" \in DOMAIN probe_metrics
        /\ IsWrite(i, "page_load") => \E k \in 1..(i - 1) : IsWrite(k, "init")
        /\ IsWrite(i, "form_submit") => \E k \in 1..(i - 1) : IsWrite(k, "page_load")

\* the first run of a form probe is typing into a field
C26_Witness ==
    /\ runs = 1
    /\ probe.class = "ProbeForm"
    /\ pc = "form_input"
    /\ FormDid("send_keys", TRUE)

(***************************************************************************)
(* C27: once run() returned, the successes recorded are nested along the   *)
(* chain: "init" has success True, and "form_submit" has success True only *)
(* if "page_load" has.                                                     *)
(***************************************************************************)
C27_NestedSuccess ==
    pc = "returned" =>
        /\ probe_metrics["init"].success
        /\ "form_submit" \in DOMAIN probe_metrics =>
              (probe_metrics["form_submit"].success =>
                  probe_metrics["page_load"].success)
        /\ "page_load" \in DOMAIN probe_metrics =>
              (probe_metrics["page_load"].success =>
                  probe_metrics["init"].success)

\* a form probe returned after its page loaded and its submit failed
C27_Witness ==
    /\ pc = "returned"
    /\ probe.class = "ProbeForm"
    /\ probe_metrics["init"].success
    /\ probe_metrics["page_load"].success
    /\ ~probe_metrics["form_submit"].success

(***************************************************************************)
(* C29: when the page loaded and a field of input_params matched no        *)
(* element, the submit element is looked up all the same and, when found,  *)
(* clicked, and the page shown after a click that did not fail is waited   *)
(* for; run() returns False.  The code violates it when typing into a      *)
(* found field or the click raises (C1).                                   *)
(***************************************************************************)
C29_MissingFieldStillSubmits ==
    (Done /\ probe.class = "ProbeForm" /\ FormDid("find_element_by_name", FALSE)) =>
        /\ \E i \in 1..Len(ops) : ops[i].op = "find_element_by_xpath"
        /\ \A i \in 1..Len(ops) :
              (ops[i].op = "find_element_by_xpath" /\ ops[i].ok) =>
                  /\ i < Len(ops)
                  /\ ops[i + 1].op = "click"
                  /\ ops[i + 1].ok =>
                        /\ i + 1 < Len(ops)
                        /\ ops[i + 2].op = "wait_for_page_to_load"
        /\ pc = "returned"
        /\ ret = FALSE

(***************************************************************************)
(* C28: the run of one probe instance never changes the metrics of another *)
(* instance run against the same Browser, in whatever order the two are    *)
(* run: no step of a run() changes the instance that waits, turning to the *)
(* other instance hands both metrics over as they are, and the metrics of  *)
(* an instance hold the tags of its own chain only.                        *)
(***************************************************************************)
C28_InstancesIndependent ==
    [][/\ \/ other' = other
          \/ /\ pc \in {"idle", "returned", "raised"}
             /\ other'[1] = [probe |-> probe, metrics |-> probe_metrics]
             /\ probe' = other[1].probe
             /\ probe_metrics' = other[1].metrics
       /\ DOMAIN probe_metrics' \subseteq ChainTags(probe'.class)
       /\ DOMAIN other'[1].metrics \subseteq ChainTags(other'[1].probe.class)]_vars

\* an abstract probe was run, and then a form probe
C28_Witness ==
    /\ Len(other) = 1
    /\ other[1].probe.class = "ProbeAbstract"
    /\ DOMAIN other[1].metrics = {"init"}
    /\ probe.class = "ProbeForm"
    /\ pc = "returned"
    /\ DOMAIN probe_metrics = {"init", "page_load", "form_submit"}
    /\ other[1].metrics["init"].timestamp_finish < probe_metrics["init"].timestamp_start

(***************************************************************************)
(* C30: as long as the clock was never set back, the records of a run that *)
(* returned are ordered in time along the chain: the start of a record is  *)
(* not after its finish, and the finish of "init" is not after the start   *)
(* of "page_load", nor the finish of "page_load" after the start of        *)
(* "form_submit".                                                          *)
(***************************************************************************)
C30_TimestampsOrdered ==
    (pc = "returned" /\ adjusts = 0) =>
        /\ \A t \in DOMAIN probe_metrics :
              probe_metrics[t].timestamp_start <= probe_metrics[t].timestamp_finish
        /\ "page_load" \in DOMAIN probe_metrics =>
              probe_metrics["init"].timestamp_finish
                 <= probe_metrics["page_load"].timestamp_start
        /\ "form_submit" \in DOMAIN probe_metrics =>
              probe_metrics["page_load"].timestamp_finish
                 <= probe_metrics["form_submit"].timestamp_start

\* a form probe returned from its second run on a clock that was never set
\* back
C30_Witness ==
    /\ pc = "returned"
    /\ adjusts = 0
    /\ runs = 2
    /\ probe.class = "ProbeForm"
    /\ probe_metrics["init"].timestamp_start > 0
    /\ probe_metrics["page_load"].timestamp_finish
          <= probe_metrics["form_submit"].timestamp_start

====
